---- MODULE Spec2Model ----
(***************************************************************************)
(* Model of deno-remove-forever (lib/remove.ts, lib/standards.ts,          *)
(* lib/writer.ts): the pass-sequencing erasure engine.                     *)
(*                                                                         *)
(* The file system is a fixed universe of nodes; a node has a name, may    *)
(* exist, and (for a file) has a content.  A path is the sequence of the   *)
(* names from the top directory down to the node.  Every invocation of a   *)
(* standard on a path is a task; a task is suspended at the I/O call it    *)
(* awaits, and an action is the completion of that call followed by the    *)
(* synchronous code up to the next await.                                  *)
(*                                                                         *)
(* The SHA-256 accumulator is modelled by the sequence of the bytes fed to *)
(* it, and two digests are equal iff these sequences are equal (a          *)
(* collision-free hash).                                                   *)
(***************************************************************************)
EXTENDS Integers, Sequences, FiniteSets, TLC

\* ---------------------------------------------------------------- bounds
MaxSize == 4
MaxRetries == 3
MaxFaults == 1
\* Deno.copy's buffer (32 * 1024 bytes, 32768 % 3 = 2), scaled down.
ChunkSize == 2

\* ------------------------------------------------------------ file system
Nodes == {"root", "a", "b", "c", "f1", "f2", "f3"}
Parent == [root |-> "none", a |-> "root", b |-> "a", c |-> "root",
           f1 |-> "a", f2 |-> "root", f3 |-> "root"]
Kind == [root |-> "dir", a |-> "dir", b |-> "dir", c |-> "dir",
         f1 |-> "file", f2 |-> "file", f3 |-> "file"]
Files == {n \in Nodes : Kind[n] = "file"}
Dirs == {n \in Nodes : Kind[n] = "dir"}

\* The trees remove() is called on: root/a/f1 beside an empty root/c, and
\* the two files root/f2 and root/f3.  A standard is called directly in the
\* first.
SingleShape == {"root", "a", "c", "f1"}
PairShape == {"root", "f2", "f3"}
Shapes == {SingleShape, PairShape}
\* A directory that holds 3 files and 1 subdirectory.
TripleShape == {"root", "a", "f1", "f2", "f3"}
\* Directories alone: root/a/b beside root/c.
DirShape == {"root", "a", "b", "c"}
\* The files that may be read-only (Deno.open for writing is denied).
MaybeReadOnly == {"f1", "f2"}
\* The sizes of the files of a tree remove() is called on, and the file
\* standards and the retries it is called with.
TreeFileSizes == {1}
TreeFileStandards == {"unsafe", "forever"}
TreeRetries == {0, MaxRetries}

\* A name is a pair: <<n, 0>> is the name entry n has at first, and <<n, k>>
\* the k-th name uuid.v4.generate() gave to the task of n (a name no entry
\* has had before).
FirstName(n) == <<n, 0>>
UuidName(n, k) == <<n, k>>

\* crypto.getRandomValues draws from these bytes; the files' first bytes.
RandBytes == {45, 210}
OrigContent == <<97, 98, 99, 100, 101, 102>>
\* Math.random() in truncate, as 0.25 + r * 0.5 in thousandths.
TruncDraws == {250, 500, 749}

VARIABLES disk, task, main, opts, uuidCtr, faults, readOnly, classGetValues

vars == <<disk, task, main, opts, uuidCtr, faults, readOnly, classGetValues>>

RECURSIVE Ancestors(_)
Ancestors(n) ==
  IF Parent[n] = "none" THEN {} ELSE {Parent[n]} \cup Ancestors(Parent[n])

Below(d) == {n \in Nodes : d \in Ancestors(n)}

\* An entry is on the file system when it and all the directories above it are.
Present(d, n) == d[n].exists /\ \A m \in Ancestors(n) : d[m].exists

RECURSIVE PathOf(_, _)
PathOf(d, n) ==
  IF Parent[n] = "none" THEN <<d[n].name>>
  ELSE PathOf(d, Parent[n]) \o <<d[n].name>>

\* Deno.stat(path) and every call that takes a path: the entry it names.
Resolve(d, p) ==
  LET hit == {n \in Nodes : Present(d, n) /\ PathOf(d, n) = p}
  IN IF hit = {} THEN "none" ELSE CHOOSE n \in hit : TRUE

Children(d, n) == {m \in Nodes : Parent[m] = n /\ d[m].exists}

\* ------------------------------------------------------- pattern sources
Min(x, y) == IF x < y THEN x ELSE y

\* The static getValues of each writer class, as the buffer filler it is.
Noop == [kind |-> "noop", arg |-> <<>>]
RandomGetValues == [kind |-> "random", arg |-> <<>>]
RandomByteGetValues == [kind |-> "randomByte", arg |-> <<>>]
ZeroGetValues == [kind |-> "fill", arg |-> <<0>>]
OneGetValues == [kind |-> "fill", arg |-> <<16777215>>]
ByteGetValues(byte) == [kind |-> "fill", arg |-> <<byte>>]
ByteArrayGetValues(byteArray) == [kind |-> "cycle", arg |-> byteArray]

\* this.getValues as FileWriter.write reads it: Byte and ByteArray keep theirs
\* in a static field that their write() assigns.
GetValuesOf(cls, cgv) ==
  CASE cls = "Random" -> RandomGetValues
    [] cls = "RandomByte" -> RandomByteGetValues
    [] cls = "Zero" -> ZeroGetValues
    [] cls = "One" -> OneGetValues
    [] OTHER -> cgv[cls]

\* The buffers one call getValues(p) can leave in p (a Uint8Array of the
\* copy's chunk size, zero-filled when allocated).
Buffers(gv) ==
  CASE gv.kind = "random" -> [1..ChunkSize -> RandBytes]
    [] gv.kind = "randomByte" -> {[i \in 1..ChunkSize |-> b] : b \in RandBytes}
    [] gv.kind = "fill" -> {[i \in 1..ChunkSize |-> gv.arg[1] % 256]}
    [] gv.kind = "cycle" ->
         {[i \in 1..ChunkSize |-> gv.arg[((i - 1) % Len(gv.arg)) + 1]]}
    [] OTHER -> {[i \in 1..ChunkSize |-> 0]}

\* Mutant of ReadAll: the Reader returns null at its second read.
ReadAllOneChunk(gv, size) ==
  LET length == Min(ChunkSize, size)
  IN IF length = 0
     THEN {[data |-> <<>>, size |-> size - length]}
     ELSE {[data |-> SubSeq(p, 1, length), size |-> size - length] :
             p \in Buffers(gv)}

\* The Reader of FileWriter.write, read until it returns null: the bytes it
\* hands to Deno.copy and the tracked size it leaves in fileData.size.
RECURSIVE ReadAll(_, _)
ReadAll(gv, size) ==
  LET length == Min(ChunkSize, size)
  IN IF length = 0
     THEN {[data |-> <<>>, size |-> size - length]}
     ELSE {[data |-> SubSeq(p, 1, length) \o r.data, size |-> r.size] :
             p \in Buffers(gv), r \in ReadAll(gv, size - length)}

\* ------------------------------------------------------------- standards
Write(cls) == [op |-> "write", cls |-> cls, arg |-> <<>>]
WriteByte(byte) == [op |-> "write", cls |-> "Byte", arg |-> <<byte>>]
WriteByteArray(byteArray) == [op |-> "write", cls |-> "ByteArray", arg |-> byteArray]
VerifyNext == [op |-> "verifyNext", cls |-> "", arg |-> <<>>]
Rename == [op |-> "rename", cls |-> "", arg |-> <<>>]
Truncate == [op |-> "truncate", cls |-> "", arg |-> <<>>]

\* The steps callback of "gutmann": its byte loop runs while byte < 0xFF in
\* steps of 0x11.
GutmannBytes == SelectSeq([i \in 1..16 |-> (i - 1) * 17], LAMBDA byte : byte < 255)

Gutmann ==
  [i \in 1..4 |-> Write("Random")]
  \o <<WriteByte(85), WriteByte(170)>>
  \o <<WriteByteArray(<<146, 73, 36>>), WriteByteArray(<<73, 36, 146>>),
       WriteByteArray(<<36, 146, 73>>)>>
  \o [i \in 1..Len(GutmannBytes) |-> WriteByte(GutmannBytes[i])]
  \o <<WriteByteArray(<<146, 73, 36>>), WriteByteArray(<<73, 36, 146>>),
       WriteByteArray(<<36, 146, 73>>)>>
  \o <<WriteByteArray(<<109, 182, 219>>), WriteByteArray(<<182, 219, 109>>),
       WriteByteArray(<<219, 109, 182>>)>>
  \o [i \in 1..4 |-> Write("Random")]

\* The steps callback of "AR380-19", byte being its getRandomByte().
AR380(byte) ==
  <<Write("RandomByte"), WriteByte(byte), VerifyNext, WriteByte(-byte - 1)>>

\* The steps callback of "CSEC-ITSG-06", byte being its getRandomByte().
CSEC(byte) ==
  (IF byte < 128 THEN <<Write("Zero"), Write("One")>>
   ELSE <<Write("One"), Write("Zero")>>)
  \o <<VerifyNext, Write("RandomByte")>>

\* The steps callback of each file standard built by fileStandard().
FileSteps(std) ==
  CASE std = "random" -> <<Write("Random")>>
    [] std = "randomByte" -> <<Write("RandomByte")>>
    [] std = "zero" -> <<Write("One")>>
    [] std = "one" -> <<Write("One")>>
    [] std = "forever" -> <<VerifyNext, Write("Random"), Rename, Truncate>>
    [] std = "NZSIT-402" -> <<VerifyNext, Write("RandomByte")>>
    [] std = "GOST-R50739-95" -> <<Write("Zero"), Write("RandomByte")>>
    [] std = "AFSSI-5020" ->
         <<Write("Zero"), Write("One"), VerifyNext, Write("RandomByte")>>
    [] std = "DOD-5220.22-M" ->
         <<VerifyNext, Write("Zero"), VerifyNext, Write("One"),
           VerifyNext, Write("RandomByte")>>
    [] std = "gutmann" -> Gutmann
    [] OTHER -> <<>>

\* The steps callback of each directory standard built by directoryStandard().
DirectorySteps(std) ==
  CASE std = "forever" -> <<Rename>>
    [] OTHER -> <<>>

StepsOf(kind, std) == IF kind = "file" THEN FileSteps(std) ELSE DirectorySteps(std)

\* The calls a user of writer.ts makes on the fileData FileWriter.init gave:
\* one pass of a pattern, or one change of a property.
WriterCalls == {"ByteArray.write", "FileProperties.truncate", "FileProperties.rename"}
WriterSteps(call) ==
  IF call = "ByteArray.write" THEN <<WriteByteArray(<<146, 73, 36>>)>>
  ELSE IF call = "FileProperties.rename" THEN <<Rename>>
  ELSE <<Truncate>>

\* The entries of fileStandards whose remove() calls the remove() of another
\* entry, and the entry each of them calls.
Aliases == {"ISM-6.2.92", "HMG-IS5", "NAVOS-5239-26", "NCSC-TG-025"}

\* Mutant of Delegate: "HMG-IS5" calls the entry "DOD-5220.22-M".
DelegateOther(std) ==
  CASE std = "ISM-6.2.92" -> "NZSIT-402"
    [] std = "HMG-IS5" -> "DOD-5220.22-M"
    [] std = "NAVOS-5239-26" -> "CSEC-ITSG-06"
    [] std = "NCSC-TG-025" -> "DOD-5220.22-M"
    [] OTHER -> std

Delegate(std) ==
  CASE std = "ISM-6.2.92" -> "NZSIT-402"
    [] std = "HMG-IS5" -> "AFSSI-5020"
    [] std = "NAVOS-5239-26" -> "CSEC-ITSG-06"
    [] std = "NCSC-TG-025" -> "DOD-5220.22-M"
    [] OTHER -> std

\* The stepsCount each entry of fileStandards declares.
StepsCount(std) ==
  CASE std = "unsafe" -> 0
    [] std \in {"random", "randomByte", "zero", "one"} -> 1
    [] std \in {"NZSIT-402", "ISM-6.2.92", "GOST-R50739-95"} -> 2
    [] std \in {"forever", "AFSSI-5020", "HMG-IS5", "CSEC-ITSG-06",
                "NAVOS-5239-26", "AR380-19"} -> 4
    [] std \in {"DOD-5220.22-M", "NCSC-TG-025"} -> 6
    [] std = "gutmann" -> 35

FileStandardNames == {"unsafe", "zero", "forever", "NZSIT-402", "GOST-R50739-95",
                      "AFSSI-5020", "DOD-5220.22-M"}
DirectoryStandardNames == {"unsafe", "forever"}

\* ------------------------------------------------- one standard on one path
\* fileData / dirData of the running attempt, and what the model records of
\* it: the passes done, the bytes the last pass emitted, the length the file
\* had when that pass began, the byte the steps callback drew for itself and
\* the getValues each pass done used.
NoData == [path |-> <<>>, size |-> 0, checksum |-> <<>>, verifyChecksum |-> FALSE,
           step |-> 0, getValues |-> Noop, pass |-> 0, emitted |-> <<>>,
           startSize |-> 0, byte |-> 0, log |-> <<>>]

IdleTask == [pc |-> "idle", kind |-> "file", std |-> "unsafe", file |-> <<>>,
             retries |-> 0, retryNeeded |-> FALSE, error |-> "none",
             attempts |-> 0, data |-> NoData, events |-> <<>>]

Settled(t) == t.pc \in {"resolved", "rejected"}

\* remove(file, options) of a standard, up to its first await: "unsafe" awaits
\* Deno.remove(file); an alias calls remove(file, options) of its delegate;
\* the others enter the do-loop and await Deno.stat in init.
StartStandard(kind, std, file, retries) ==
  IF std = "unsafe"
  THEN [IdleTask EXCEPT !.pc = "remove", !.kind = kind, !.std = std, !.file = file,
                        !.attempts = 1, !.data = [NoData EXCEPT !.path = file]]
  ELSE [IdleTask EXCEPT !.pc = "stat", !.kind = kind, !.std = Delegate(std),
                        !.file = file, !.retries = retries, !.attempts = 1]

\* Mutant of Catch: the loop condition is tested before retries is
\* decremented.
CatchTestFirst(t, err) ==
  IF t.retries >= 0
  THEN [t EXCEPT !.pc = "stat", !.retries = @ - 1, !.retryNeeded = TRUE,
                 !.error = err, !.attempts = @ + 1, !.data = NoData,
                 !.events = Append(@, "warning")]
  ELSE [t EXCEPT !.pc = "rejected", !.retries = @ - 1, !.retryNeeded = TRUE,
                 !.error = err, !.data = NoData,
                 !.events = @ \o <<"warning", "error">>]

\* The catch block (with its logger.warning), the loop condition and, after
\* the loop, logger.error and the throw.
Catch(t, err) ==
  LET retries == t.retries - 1
  IN IF retries > 0
     THEN [t EXCEPT !.pc = "stat", !.retries = retries, !.retryNeeded = TRUE,
                    !.error = err, !.attempts = @ + 1, !.data = NoData,
                    !.events = Append(@, "warning")]
     ELSE [t EXCEPT !.pc = "rejected", !.retries = retries, !.retryNeeded = TRUE,
                    !.error = err, !.data = NoData,
                    !.events = @ \o <<"warning", "error">>]

\* The steps the task t runs.
Steps(t) ==
  IF t.std \in WriterCalls THEN WriterSteps(t.std)
  ELSE IF t.kind = "file" /\ t.std = "AR380-19" THEN AR380(t.data.byte)
  ELSE IF t.kind = "file" /\ t.std = "CSEC-ITSG-06" THEN CSEC(t.data.byte)
  ELSE StepsOf(t.kind, t.std)

\* An awaited call rejects: "unsafe" has no try, its remove() rejects at once,
\* and so does a call of writer.ts, whose caller keeps the fileData as the
\* call left it (after a failed Deno.copy only its path is followed here).
Throw(t, err) ==
  IF t.std = "unsafe"
  THEN [t EXCEPT !.pc = "rejected", !.error = err, !.data = NoData]
  ELSE IF t.std \in WriterCalls
  THEN [t EXCEPT !.pc = "rejected", !.error = err,
                 !.data = IF t.pc = "copy"
                          THEN [NoData EXCEPT !.path = t.data.path] ELSE @]
  ELSE Catch(t, err)

\* FileWriter.verifyNext
VerifyNextOf(data) == [data EXCEPT !.verifyChecksum = TRUE, !.checksum = <<>>]

\* The steps callback from data.step on, up to its next await; after the last
\* step the standard awaits Deno.remove(data.path), and a call of writer.ts
\* has returned.
RECURSIVE RunSteps(_)
RunSteps(t) ==
  LET steps == Steps(t)
      i == t.data.step
  IN IF i > Len(steps)
     THEN [t EXCEPT !.pc = IF t.std \in WriterCalls THEN "resolved" ELSE "remove"]
     ELSE IF steps[i].op = "verifyNext"
     THEN RunSteps([t EXCEPT !.data = [VerifyNextOf(t.data) EXCEPT !.step = i + 1]])
     ELSE IF steps[i].op = "write" THEN [t EXCEPT !.pc = "open"]
     ELSE [t EXCEPT !.pc = steps[i].op]

NextStep(t) == RunSteps([t EXCEPT !.data.step = @ + 1])

\* Byte.write and ByteArray.write assign their class's getValues before they
\* call super.write, which awaits Deno.open.
AssignGetValues(cgv, t) ==
  LET steps == Steps(t)
  IN IF t.pc = "open" /\ steps[t.data.step].cls = "Byte"
     THEN [cgv EXCEPT !["Byte"] = ByteGetValues(steps[t.data.step].arg[1])]
     ELSE IF t.pc = "open" /\ steps[t.data.step].cls = "ByteArray"
     THEN [cgv EXCEPT !["ByteArray"] = ByteArrayGetValues(steps[t.data.step].arg)]
     ELSE cgv

\* Mutant of InitOf: init keeps the size of the object it is handed instead
\* of reading the size of the file.
InitOfNoSize(t, d, byte) ==
  LET n == Resolve(d, t.file)
  IN IF n = "none" THEN Throw(t, "NotFound")
     ELSE IF t.kind = "file" /\ Kind[n] # "file"
     THEN Throw(t, "The specified path is not a file.")
     ELSE IF t.kind = "dir" /\ Kind[n] # "dir"
     THEN Throw(t, "The specified path is not a directory.")
     ELSE RunSteps([t EXCEPT !.data = [t.data EXCEPT !.path = t.file,
                                                     !.step = 1, !.byte = byte]])

\* FileWriter.init / DirectoryWriter.init once Deno.stat has answered; byte is
\* what getRandomByte() gives the steps callback of this attempt.
InitOf(t, d, byte) ==
  LET n == Resolve(d, t.file)
  IN IF n = "none" THEN Throw(t, "NotFound")
     ELSE IF t.kind = "file" /\ Kind[n] # "file"
     THEN Throw(t, "The specified path is not a file.")
     ELSE IF t.kind = "dir" /\ Kind[n] # "dir"
     THEN Throw(t, "The specified path is not a directory.")
     ELSE RunSteps([t EXCEPT !.data = [NoData EXCEPT !.path = t.file,
                                                     !.size = Len(d[n].content),
                                                     !.step = 1, !.byte = byte]])

\* FileWriter.write once Deno.open has answered: getValues is read now.
OpenOf(t, d, ro, cgv, io) ==
  LET n == Resolve(d, t.data.path)
      cls == Steps(t)[t.data.step].cls
  IN IF n = "none" THEN Throw(t, "NotFound")
     ELSE IF n \in ro THEN Throw(t, "PermissionDenied")
     ELSE IF io = "error" THEN Throw(t, "IoError")
     ELSE [t EXCEPT !.pc = "copy", !.data.getValues = GetValuesOf(cls, cgv)]

\* What a write at offset 0 of a file opened without truncation leaves.
Overwrite(old, bytes) ==
  bytes \o SubSeq(old, Len(bytes) + 1, Len(old))

\* What Deno.copy leaves on disk: all the bytes read, or, when the write is
\* cut short (an error, or a write that reports success without persisting),
\* a prefix of them.
Persisted(r, io, k) == IF io = "ok" THEN r.data ELSE SubSeq(r.data, 1, k)

\* Mutant of CopyOf: the flag is not reset before verify().
CopyOfKeepFlag(t, old, r, io) ==
  IF io = "error" THEN Throw(t, "IoError")
  ELSE LET data == [t.data EXCEPT
                      !.size = r.size,
                      !.checksum = IF t.data.verifyChecksum THEN @ \o r.data ELSE @,
                      !.pass = @ + 1, !.emitted = r.data, !.startSize = Len(old),
                      !.log = Append(@, t.data.getValues)]
       IN IF data.verifyChecksum
          THEN [t EXCEPT !.pc = "verify", !.data = data]
          ELSE NextStep([t EXCEPT !.data = data])

\* Mutant of CopyOf: write() does not wait for verify(), the next step starts
\* when Deno.copy has answered.
CopyOfUnawaitedVerify(t, old, r, io) ==
  IF io = "error" THEN Throw(t, "IoError")
  ELSE NextStep([t EXCEPT !.data = [@ EXCEPT
                   !.size = r.size,
                   !.checksum = IF t.data.verifyChecksum THEN @ \o r.data ELSE @,
                   !.verifyChecksum = FALSE,
                   !.pass = @ + 1, !.emitted = r.data, !.startSize = Len(old),
                   !.log = Append(@, t.data.getValues)]])

\* FileWriter.write from Deno.copy on: the copy, dest.close() and, when asked
\* for, the reset of the flag before verify() awaits its Deno.open.
CopyOf(t, old, r, io) ==
  IF io = "error" THEN Throw(t, "IoError")
  ELSE LET data == [t.data EXCEPT
                      !.size = r.size,
                      !.checksum = IF t.data.verifyChecksum THEN @ \o r.data ELSE @,
                      !.pass = @ + 1, !.emitted = r.data, !.startSize = Len(old),
                      !.log = Append(@, t.data.getValues)]
       IN IF data.verifyChecksum
          THEN [t EXCEPT !.pc = "verify", !.data = [data EXCEPT !.verifyChecksum = FALSE]]
          ELSE NextStep([t EXCEPT !.data = data])

\* Mutant of VerifyOf: the read-back compares the lengths, not the digests.
VerifyOfLengthOnly(t, d, io) ==
  LET n == Resolve(d, t.data.path)
  IN IF n = "none" THEN Throw(t, "NotFound")
     ELSE IF io = "error" THEN Throw(t, "IoError")
     ELSE IF Len(t.data.checksum) # Len(d[n].content) THEN Throw(t, "Invalid checksum")
     ELSE NextStep(t)

\* FileWriter.verify: the file is read back and the two digests compared.
VerifyOf(t, d, io) ==
  LET n == Resolve(d, t.data.path)
  IN IF n = "none" THEN Throw(t, "NotFound")
     ELSE IF io = "error" THEN Throw(t, "IoError")
     ELSE IF t.data.checksum # d[n].content THEN Throw(t, "Invalid checksum")
     ELSE NextStep(t)

\* path.join(path.dirname(p), newName)
Sibling(p, newName) == SubSeq(p, 1, Len(p) - 1) \o <<newName>>

\* Mutant of RenameOf: the tracked path is set before Deno.rename is awaited.
RenameOfPathFirst(t, d, newName, io) ==
  IF Resolve(d, t.data.path) = "none"
  THEN Throw([t EXCEPT !.data.path = Sibling(t.data.path, newName)], "NotFound")
  ELSE IF io = "error"
  THEN Throw([t EXCEPT !.data.path = Sibling(t.data.path, newName)], "IoError")
  ELSE NextStep([t EXCEPT !.data.path = Sibling(t.data.path, newName)])

\* FileProperties.rename / DirectoryProperties.rename once Deno.rename answered.
RenameOf(t, d, newName, io) ==
  IF Resolve(d, t.data.path) = "none" THEN Throw(t, "NotFound")
  ELSE IF io = "error" THEN Throw(t, "IoError")
  ELSE NextStep([t EXCEPT !.data.path = Sibling(t.data.path, newName)])

\* Mutant of NewSize: the product is rounded to the nearest integer.
NewSizeRounded(size, draw) == (draw * size + 500) \div 1000

\* Math.floor((0.25 + Math.random() * 0.5) * size), the draw in thousandths.
NewSize(size, draw) == (draw * size) \div 1000

\* Deno.truncate(path, len): cut, or padded with zero bytes.
Truncated(content, len) ==
  [i \in 1..len |-> IF i <= Len(content) THEN content[i] ELSE 0]

\* Mutant of TruncateOf: an error of Deno.truncate is swallowed and the
\* attempt goes on.
TruncateOfSwallow(t, d, draw, io) ==
  IF Resolve(d, t.data.path) = "none" THEN Throw(t, "NotFound")
  ELSE IF io = "error" THEN NextStep(t)
  ELSE NextStep([t EXCEPT !.data.size = NewSize(t.data.size, draw)])

\* FileProperties.truncate once Deno.truncate has answered.
TruncateOf(t, d, draw, io) ==
  IF Resolve(d, t.data.path) = "none" THEN Throw(t, "NotFound")
  ELSE IF io = "error" THEN Throw(t, "IoError")
  ELSE NextStep([t EXCEPT !.data.size = NewSize(t.data.size, draw)])

\* Mutant of RemoveError: the removal is recursive, a directory need not be
\* empty.
RemoveErrorRecursive(d, p, io) ==
  IF Resolve(d, p) = "none" THEN "NotFound"
  ELSE IF io = "error" THEN "IoError"
  ELSE "none"

\* Deno.remove(path) without recursive: a directory must be empty.
RemoveError(d, p, io) ==
  LET n == Resolve(d, p)
  IN IF n = "none" THEN "NotFound"
     ELSE IF Children(d, n) # {} THEN "NotEmpty"
     ELSE IF io = "error" THEN "IoError"
     ELSE "none"

\* What fileStandard.remove logs after the loop when the last attempt
\* succeeded ("unsafe" logs nothing).
Removed(t) ==
  IF t.std = "unsafe" THEN <<>>
  ELSE IF t.error # "none" THEN <<"warn", "removed">>
  ELSE <<"removed">>

\* Mutant of RemoveOf: retryNeeded keeps the value the catch gave it.
RemoveOfNoReset(t, d, io) ==
  IF RemoveError(d, t.data.path, io) # "none"
  THEN Throw(t, RemoveError(d, t.data.path, io))
  ELSE IF t.retryNeeded
  THEN [t EXCEPT !.pc = "rejected", !.data = NoData, !.events = Append(@, "error")]
  ELSE [t EXCEPT !.pc = "resolved", !.data = NoData, !.events = @ \o Removed(t)]

\* The end of an attempt: Deno.remove(data.path) answered; on success
\* retryNeeded is false, the loop ends and remove() resolves.
RemoveOf(t, d, io) ==
  IF RemoveError(d, t.data.path, io) # "none"
  THEN Throw(t, RemoveError(d, t.data.path, io))
  ELSE [t EXCEPT !.pc = "resolved", !.retryNeeded = FALSE, !.data = NoData,
                 !.events = @ \o Removed(t)]

\* ------------------------------------------------------------- tree walker
\* Deno.readDir lists the entries of a directory in an order of its own: the
\* order of NodeOrder, or the reverse of it.
NodeOrder == <<"root", "a", "b", "c", "f1", "f2", "f3">>

Reverse(s) == [i \in 1..Len(s) |-> s[Len(s) + 1 - i]]

Listing(d, n, rev) ==
  LET l == SelectSeq(NodeOrder, LAMBDA m : m \in Children(d, n))
  IN IF rev THEN Reverse(l) ELSE l

\* fs.walk(dir, {includeFiles, includeDirs}): the root first, then every entry
\* of the listing, a directory entry by a walk of its own.
RECURSIVE Walk(_, _, _, _, _)
RECURSIVE WalkList(_, _, _, _, _)
Walk(d, n, includeFiles, includeDirs, rev) ==
  IF Kind[n] = "file" THEN (IF includeFiles THEN <<n>> ELSE <<>>)
  ELSE (IF includeDirs THEN <<n>> ELSE <<>>)
       \o WalkList(d, Listing(d, n, rev), includeFiles, includeDirs, rev)
WalkList(d, l, includeFiles, includeDirs, rev) ==
  IF l = <<>> THEN <<>>
  ELSE Walk(d, Head(l), includeFiles, includeDirs, rev)
       \o WalkList(d, Tail(l), includeFiles, includeDirs, rev)

\* Mutant of GetRejected: the rejected results are filtered first and then
\* paired with the paths by their index in the filtered list.
GetRejectedFilterFirst(tk, nodes, paths) ==
  LET rejected == SelectSeq(nodes, LAMBDA n : tk[n].pc = "rejected")
  IN [i \in 1..Len(rejected) |-> [path |-> paths[i], reason |-> tk[rejected[i]].error]]

\* getRejected: one entry per task, then the filter on reason !== null.
GetRejected(tk, nodes, paths) ==
  LET results == [i \in 1..Len(nodes) |->
                    IF tk[nodes[i]].pc = "rejected"
                    THEN [path |-> paths[i], reason |-> tk[nodes[i]].error]
                    ELSE [path |-> <<>>, reason |-> "null"]]
  IN SelectSeq(results, LAMBDA result : result.reason # "null")

NoResult == [status |-> "pending", count |-> 0, list |-> <<>>, error |-> "none"]
Resolved(count) == [NoResult EXCEPT !.status = "resolved", !.count = count]
RejectedList(list) == [NoResult EXCEPT !.status = "rejected", !.list = list]
RejectedError(err) == [NoResult EXCEPT !.status = "rejected", !.error = err]

NoMain == [pc |-> "direct", path |-> <<>>, files |-> <<>>, fileNodes |-> <<>>,
           directories |-> <<>>, dirNodes |-> <<>>, i |-> 0,
           rejectedFiles |-> <<>>, rejectedDirectories |-> <<>>,
           result |-> NoResult, options |-> <<>>]

\* files.map((file) => options.fileStandard(file, options))
FileTasks(tk, nodes, paths, o) ==
  [n \in Nodes |->
     IF \E i \in 1..Len(nodes) : nodes[i] = n
     THEN StartStandard("file", o.fileStandard,
                        paths[CHOOSE i \in 1..Len(nodes) : nodes[i] = n], o.retries)
     ELSE tk[n]]

\* Mutant of FirstIndex: the directory loop starts from the first entry.
FirstIndexForward(directories) == Min(1, Len(directories))

\* The index the directory loop of removeDirectory starts from.
FirstIndex(directories) == Len(directories)
\* The index it goes to next.
NextIndex(i) == i - 1

\* removeDirectory after the directory loop.
AfterDirectories(m, rejectedDirectories, o) ==
  IF Len(rejectedDirectories) > 0 /\ ~o.ignoreErrors
  THEN [m EXCEPT !.pc = "rejected", !.rejectedDirectories = rejectedDirectories,
                 !.result = RejectedList(rejectedDirectories)]
  ELSE IF Len(rejectedDirectories) > 0 \/ Len(m.rejectedFiles) > 0
  THEN [m EXCEPT !.pc = "cleanup", !.rejectedDirectories = rejectedDirectories]
  ELSE [m EXCEPT !.pc = "resolved", !.rejectedDirectories = rejectedDirectories,
                 !.result = Resolved(Len(m.files) + Len(m.directories)
                                     - Len(m.rejectedFiles) - Len(rejectedDirectories))]

\* Mutant of AfterFiles: the failures of the files never abort.
AfterFilesNoAbort(m, tk, o) ==
  LET rejectedFiles == GetRejected(tk, m.fileNodes, m.files)
  IN IF FirstIndex(m.directories) > 0
     THEN [m EXCEPT !.pc = "dirs", !.rejectedFiles = rejectedFiles,
                    !.i = FirstIndex(m.directories)]
     ELSE AfterDirectories([m EXCEPT !.rejectedFiles = rejectedFiles], <<>>, o)

\* removeDirectory once every file task has settled.
AfterFiles(m, tk, o) ==
  LET rejectedFiles == GetRejected(tk, m.fileNodes, m.files)
  IN IF Len(rejectedFiles) > 0 /\ ~o.ignoreErrors
     THEN [m EXCEPT !.pc = "rejected", !.rejectedFiles = rejectedFiles,
                    !.result = RejectedList(rejectedFiles)]
     ELSE IF FirstIndex(m.directories) > 0
     THEN [m EXCEPT !.pc = "dirs", !.rejectedFiles = rejectedFiles,
                    !.i = FirstIndex(m.directories)]
     ELSE AfterDirectories([m EXCEPT !.rejectedFiles = rejectedFiles], <<>>, o)

\* Deno.remove(dir, {recursive: true})
RemoveAll(d, n) ==
  [m \in Nodes |-> IF m = n \/ m \in Below(n)
                   THEN [d[m] EXCEPT !.exists = FALSE, !.content = <<>>]
                   ELSE d[m]]

\* ------------------------------------------------------------------ Init
InitDisk(shape, size) ==
  [n \in Nodes |->
     [name |-> FirstName(n), exists |-> n \in shape,
      content |-> IF n \in shape /\ Kind[n] = "file"
                  THEN SubSeq(OrigContent, 1, size) ELSE <<>>]]

\* remove(path, options) is called and awaits Deno.stat(path).
\* The names of RemoveOptions, and values a caller supplies for them.
OptionNames == {"fileStandard", "directoryStandard", "ignoreErrors", "retries"}
Supplied == [fileStandard |-> "unsafe", directoryStandard |-> "unsafe",
             ignoreErrors |-> TRUE, retries |-> 0]

\* Mutant of ParsedOptions: an omitted ignoreErrors takes the value true.
ParsedOptionsTolerant(options) ==
  [fileStandard |-> IF "fileStandard" \in DOMAIN options
                    THEN options.fileStandard ELSE "forever",
   directoryStandard |-> IF "directoryStandard" \in DOMAIN options
                         THEN options.directoryStandard ELSE "forever",
   ignoreErrors |-> IF "ignoreErrors" \in DOMAIN options
                    THEN options.ignoreErrors ELSE TRUE,
   retries |-> IF "retries" \in DOMAIN options THEN options.retries ELSE 3]

\* parsedOptions of remove(): options?.x ?? default, for each option x.
ParsedOptions(options) ==
  [fileStandard |-> IF "fileStandard" \in DOMAIN options
                    THEN options.fileStandard ELSE "forever",
   directoryStandard |-> IF "directoryStandard" \in DOMAIN options
                         THEN options.directoryStandard ELSE "forever",
   ignoreErrors |-> IF "ignoreErrors" \in DOMAIN options
                    THEN options.ignoreErrors ELSE FALSE,
   retries |-> IF "retries" \in DOMAIN options THEN options.retries ELSE 3]

\* remove(PathOf(target), options) is called on the tree shape; rev is the
\* order in which Deno.readDir will list the entries.
RemoveCalled(shape, target, options, rev, ro) ==
  /\ \E size \in TreeFileSizes : disk = InitDisk(shape, size)
  /\ opts = ParsedOptions(options) @@ [rev |-> rev]
  /\ main = [NoMain EXCEPT !.pc = "stat", !.path = PathOf(disk, target),
                           !.options = options]
  /\ task = [n \in Nodes |-> IdleTask]
  /\ readOnly = ro

InitRemove ==
  \E shape \in Shapes,
     fstd \in TreeFileStandards, dstd \in DirectoryStandardNames,
     retries \in TreeRetries, ignoreErrors \in BOOLEAN, rev \in BOOLEAN :
    \E target \in (IF shape = SingleShape THEN {"root", "f1"} ELSE {"root"}),
       ro \in SUBSET (MaybeReadOnly \cap shape) :
      RemoveCalled(shape, target,
                   [fileStandard |-> fstd, directoryStandard |-> dstd,
                    retries |-> retries, ignoreErrors |-> ignoreErrors],
                   rev, ro)

\* remove() is called on two files with a standard whose passes take a byte
\* of their own ("AR380-19"), and, with the standard of one step ("unsafe"),
\* on three files and a subdirectory and on directories alone.
InitRemoveMore ==
  \/ RemoveCalled(PairShape, "root",
                  [fileStandard |-> "AR380-19", directoryStandard |-> "unsafe",
                   retries |-> 0, ignoreErrors |-> TRUE], FALSE, {})
  \/ \E dstd \in DirectoryStandardNames, ignoreErrors \in BOOLEAN :
       RemoveCalled(TripleShape, "root",
                    [fileStandard |-> "unsafe", directoryStandard |-> dstd,
                     retries |-> 0, ignoreErrors |-> ignoreErrors], FALSE, {})
  \/ \E ignoreErrors \in BOOLEAN, rev \in BOOLEAN :
       RemoveCalled(DirShape, "root",
                    [fileStandard |-> "unsafe", directoryStandard |-> "unsafe",
                     retries |-> 0, ignoreErrors |-> ignoreErrors], rev, {})

\* remove() is called with some of its options left out, or with none.
InitRemoveOmitting ==
  \E given \in SUBSET OptionNames :
    RemoveCalled(SingleShape, "root", [x \in given |-> Supplied[x]], FALSE, {})

\* A user of writer.ts calls FileWriter.init(file) and one write or truncate.
InitWriter ==
  \E size \in 0..MaxSize, call \in WriterCalls :
    /\ disk = InitDisk(SingleShape, size)
    /\ opts = [fileStandard |-> call, directoryStandard |-> "unsafe",
               retries |-> 0, ignoreErrors |-> FALSE, rev |-> FALSE]
    /\ main = NoMain
    /\ task = [n \in Nodes |->
                 IF n = "f1"
                 THEN [IdleTask EXCEPT !.pc = "stat", !.std = call,
                                       !.file = PathOf(disk, "f1"), !.attempts = 1]
                 ELSE IdleTask]
    /\ readOnly = {}

\* A standard of a catalog is called directly on a path.
StandardCalled(size, kind, target, std, retries, ro) ==
  /\ disk = InitDisk(SingleShape, size)
  /\ opts = [fileStandard |-> IF kind = "file" THEN std ELSE "unsafe",
             directoryStandard |-> IF kind = "dir" THEN std ELSE "unsafe",
             retries |-> retries, ignoreErrors |-> FALSE, rev |-> FALSE]
  /\ main = NoMain
  /\ task = [n \in Nodes |->
               IF n = target
               THEN StartStandard(kind, std, PathOf(disk, target), retries)
               ELSE IdleTask]
  /\ readOnly = ro

InitStandard ==
  \/ \E size \in 0..MaxSize, kind \in {"file", "dir"}, target \in {"f1", "c"},
        retries \in 0..MaxRetries, ro \in SUBSET (MaybeReadOnly \cap SingleShape) :
       \E std \in (IF kind = "file" THEN FileStandardNames
                    ELSE DirectoryStandardNames) :
         StandardCalled(size, kind, target, std, retries, ro)
  \/ \E size \in TreeFileSizes, retries \in TreeRetries :
       \E std \in {"gutmann", "CSEC-ITSG-06"} \cup Aliases :
         StandardCalled(size, "file", "f1", std, retries, {})

Init ==
  /\ InitRemove \/ InitRemoveMore \/ InitRemoveOmitting \/ InitStandard \/ InitWriter
  /\ uuidCtr = [n \in Nodes |-> 0]
  /\ faults = 0
  /\ classGetValues = [cls \in {"Byte", "ByteArray"} |-> Noop]

\* --------------------------------------------------------------- actions
\* An awaited I/O call answers, or (while the fault budget lasts) fails with
\* an I/O error; a call that fails anyway (t is what its answer leads to)
\* needs no fault.
Failed(t) == t.pc \in {"stat", "rejected"}
IoOutcomes == IF faults < MaxFaults THEN {"ok", "error"} ELSE {"ok"}
IoOutcomesOf(t) == IF Failed(t) THEN {"ok"} ELSE IoOutcomes
CopyOutcomes == IF faults < MaxFaults THEN {"ok", "error", "short"} ELSE {"ok"}

TaskStep(n, t, d, io) ==
  /\ task' = [task EXCEPT ![n] = t]
  /\ disk' = d
  /\ faults' = IF io = "ok" THEN faults ELSE faults + 1
  /\ classGetValues' = AssignGetValues(classGetValues, t)
  /\ UNCHANGED <<main, opts, readOnly>>

\* The bytes getRandomByte() can give the steps callback of a standard.
RandomByteOf(std) ==
  IF std \in {"AR380-19", "CSEC-ITSG-06"} THEN RandBytes ELSE {0}

TaskInit(n) ==
  /\ task[n].pc = "stat"
  /\ \E byte \in RandomByteOf(task[n].std) :
       TaskStep(n, InitOf(task[n], disk, byte), disk, "ok")
  /\ UNCHANGED uuidCtr

TaskOpen(n) ==
  /\ task[n].pc = "open"
  /\ \E io \in IoOutcomesOf(OpenOf(task[n], disk, readOnly, classGetValues, "ok")) :
       TaskStep(n, OpenOf(task[n], disk, readOnly, classGetValues, io), disk, io)
  /\ UNCHANGED uuidCtr

TaskCopy(n) ==
  /\ task[n].pc = "copy"
  /\ LET f == Resolve(disk, task[n].data.path)
     IN /\ f # "none"
        /\ \E io \in CopyOutcomes, r \in ReadAll(task[n].data.getValues, task[n].data.size) :
             \E k \in (IF io = "ok" THEN {0} ELSE 0..(Len(r.data) - 1)) :
               TaskStep(n, CopyOf(task[n], disk[f].content, r, io),
                        [disk EXCEPT ![f].content = Overwrite(@, Persisted(r, io, k))],
                        io)
  /\ UNCHANGED uuidCtr

TaskVerify(n) ==
  /\ task[n].pc = "verify"
  /\ \E io \in IoOutcomesOf(VerifyOf(task[n], disk, "ok")) :
       TaskStep(n, VerifyOf(task[n], disk, io), disk, io)
  /\ UNCHANGED uuidCtr

\* A byte of the file changes on disk between the write and the read-back.
Corrupt(n) ==
  /\ task[n].pc = "verify"
  /\ faults < MaxFaults
  /\ LET f == Resolve(disk, task[n].data.path)
     IN /\ f # "none"
        /\ \E k \in 1..Len(disk[f].content) :
             disk' = [disk EXCEPT ![f].content[k] = (@ + 1) % 256]
  /\ faults' = faults + 1
  /\ UNCHANGED <<task, main, opts, uuidCtr, readOnly, classGetValues>>

TaskRename(n) ==
  /\ task[n].pc = "rename"
  /\ uuidCtr' = [uuidCtr EXCEPT ![n] = @ + 1]
  /\ LET f == Resolve(disk, task[n].data.path)
         newName == UuidName(n, uuidCtr[n] + 1)
     IN \E io \in IoOutcomesOf(RenameOf(task[n], disk, newName, "ok")) :
          TaskStep(n, RenameOf(task[n], disk, newName, io),
                   IF f # "none" /\ io = "ok" THEN [disk EXCEPT ![f].name = newName]
                   ELSE disk,
                   io)

TaskTruncate(n) ==
  /\ task[n].pc = "truncate"
  /\ LET f == Resolve(disk, task[n].data.path)
     IN \E draw \in TruncDraws :
        \E io \in IoOutcomesOf(TruncateOf(task[n], disk, draw, "ok")) :
          TaskStep(n, TruncateOf(task[n], disk, draw, io),
                   IF f # "none" /\ io = "ok"
                   THEN [disk EXCEPT ![f].content =
                           Truncated(@, NewSize(task[n].data.size, draw))]
                   ELSE disk,
                   io)
  /\ UNCHANGED uuidCtr

TaskRemove(n) ==
  /\ task[n].pc = "remove"
  /\ LET f == Resolve(disk, task[n].data.path)
     IN \E io \in IoOutcomesOf(RemoveOf(task[n], disk, "ok")) :
          TaskStep(n, RemoveOf(task[n], disk, io),
                   IF RemoveError(disk, task[n].data.path, io) = "none"
                   THEN [disk EXCEPT ![f].exists = FALSE, ![f].content = <<>>]
                   ELSE disk,
                   io)
  /\ UNCHANGED uuidCtr

\* remove(): Deno.stat(path) answered.  A file goes to removeFile, which calls
\* the file standard; a directory goes to removeDirectory, which walks it
\* twice and calls the file standard on every file.
RemoveStat ==
  /\ main.pc = "stat"
  /\ LET n == Resolve(disk, main.path)
         fileNodes == Walk(disk, n, TRUE, FALSE, opts.rev)
         dirNodes == Walk(disk, n, FALSE, TRUE, opts.rev)
         files == [i \in 1..Len(fileNodes) |-> PathOf(disk, fileNodes[i])]
         directories == [i \in 1..Len(dirNodes) |-> PathOf(disk, dirNodes[i])]
     IN IF Kind[n] = "file"
        THEN /\ main' = [main EXCEPT !.pc = "file"]
             /\ task' = [task EXCEPT ![n] = StartStandard("file", opts.fileStandard,
                                                          main.path, opts.retries)]
        ELSE /\ main' = [main EXCEPT !.pc = "files", !.files = files,
                                     !.fileNodes = fileNodes,
                                     !.directories = directories,
                                     !.dirNodes = dirNodes]
             /\ task' = FileTasks(task, fileNodes, files, opts)
  /\ UNCHANGED <<disk, opts, uuidCtr, faults, readOnly, classGetValues>>

\* Mutant of RemoveFileOf: the failure of the standard is always swallowed.
RemoveFileOfSwallow(m, t, o) ==
  [m EXCEPT !.pc = "resolved", !.result = Resolved(1)]

\* removeFile once the file standard has settled.
RemoveFileOf(m, t, o) ==
  IF t.pc = "rejected" /\ o.ignoreErrors = FALSE
  THEN [m EXCEPT !.pc = "rejected",
                 !.result = RejectedList(<<[path |-> m.path, reason |-> t.error]>>)]
  ELSE [m EXCEPT !.pc = "resolved", !.result = Resolved(1)]

RemoveFileDone ==
  /\ main.pc = "file"
  /\ LET n == CHOOSE n \in Nodes : task[n].pc # "idle"
     IN /\ Settled(task[n])
        /\ main' = RemoveFileOf(main, task[n], opts)
  /\ UNCHANGED <<disk, task, opts, uuidCtr, faults, readOnly, classGetValues>>

\* The call of the directory standard on directories[i], when the loop is there.
DirectoryTask(tk, m, o) ==
  IF m.pc = "dirs"
  THEN [tk EXCEPT ![m.dirNodes[m.i]] =
          StartStandard("dir", o.directoryStandard, m.directories[m.i], o.retries)]
  ELSE tk

\* Mutant of AllSettled: the promise answers when one task has settled.
AnySettled(tk, nodes) == \E i \in 1..Len(nodes) : Settled(tk[nodes[i]])

\* Promise.allSettled(tasks) answers when every task has settled.
AllSettled(tk, nodes) == \A i \in 1..Len(nodes) : Settled(tk[nodes[i]])

\* Promise.allSettled(fileTasks) answered.
FilesSettled ==
  /\ main.pc = "files"
  /\ AllSettled(task, main.fileNodes)
  /\ main' = AfterFiles(main, task, opts)
  /\ task' = DirectoryTask(task, main', opts)
  /\ UNCHANGED <<disk, opts, uuidCtr, faults, readOnly, classGetValues>>

\* The directory loop once the standard of directories[i] has settled.
DirectoryOf(m, t, o) ==
  LET rejectedDirectories ==
        IF t.pc = "rejected"
        THEN Append(m.rejectedDirectories,
                    [path |-> m.directories[m.i], reason |-> t.error])
        ELSE m.rejectedDirectories
  IN IF NextIndex(m.i) > 0
     THEN [m EXCEPT !.i = NextIndex(m.i), !.rejectedDirectories = rejectedDirectories]
     ELSE AfterDirectories([m EXCEPT !.i = NextIndex(m.i)], rejectedDirectories, o)

DirectorySettled ==
  /\ main.pc = "dirs"
  /\ Settled(task[main.dirNodes[main.i]])
  /\ main' = DirectoryOf(main, task[main.dirNodes[main.i]], opts)
  /\ task' = DirectoryTask(task, main', opts)
  /\ UNCHANGED <<disk, opts, uuidCtr, faults, readOnly, classGetValues>>

\* Mutant of CleanupOf: the count is taken over the files alone.
CleanupOfFilesOnly(m, d, io) ==
  IF Resolve(d, m.path) = "none"
  THEN [m EXCEPT !.pc = "rejected", !.result = RejectedError("NotFound")]
  ELSE IF io = "error"
  THEN [m EXCEPT !.pc = "rejected", !.result = RejectedError("IoError")]
  ELSE [m EXCEPT !.pc = "resolved",
                 !.result = Resolved(Len(m.files) - Len(m.rejectedFiles))]

\* The final cleanup: Deno.remove(dir, {recursive: true}) answered.
CleanupOf(m, d, io) ==
  IF Resolve(d, m.path) = "none"
  THEN [m EXCEPT !.pc = "rejected", !.result = RejectedError("NotFound")]
  ELSE IF io = "error"
  THEN [m EXCEPT !.pc = "rejected", !.result = RejectedError("IoError")]
  ELSE [m EXCEPT !.pc = "resolved",
                 !.result = Resolved(Len(m.files) + Len(m.directories)
                                     - Len(m.rejectedFiles)
                                     - Len(m.rejectedDirectories))]

Cleanup ==
  /\ main.pc = "cleanup"
  /\ \E io \in (IF Resolve(disk, main.path) = "none" THEN {"ok"} ELSE IoOutcomes) :
       /\ main' = CleanupOf(main, disk, io)
       /\ disk' = IF main'.pc = "resolved"
                  THEN RemoveAll(disk, Resolve(disk, main.path)) ELSE disk
       /\ faults' = IF io = "ok" THEN faults ELSE faults + 1
  /\ UNCHANGED <<task, opts, uuidCtr, readOnly, classGetValues>>

Next ==
  \/ \E n \in Nodes : TaskInit(n)
  \/ \E n \in Nodes : TaskOpen(n)
  \/ \E n \in Nodes : TaskCopy(n)
  \/ \E n \in Nodes : TaskVerify(n)
  \/ \E n \in Nodes : Corrupt(n)
  \/ \E n \in Nodes : TaskRename(n)
  \/ \E n \in Nodes : TaskTruncate(n)
  \/ \E n \in Nodes : TaskRemove(n)
  \/ RemoveStat
  \/ RemoveFileDone
  \/ FilesSettled
  \/ DirectorySettled
  \/ Cleanup

Spec == Init /\ [][Next]_vars

\* ------------------------------------------------------------ sanity
TypeOK ==
  /\ \A n \in Nodes : task[n].pc \in {"idle", "stat", "open", "copy", "verify",
                                      "rename", "truncate", "remove",
                                      "resolved", "rejected"}
  /\ \A n \in Nodes : task[n].pc = "copy" => Resolve(disk, task[n].data.path) # "none"
  /\ faults <= MaxFaults

\* ------------------------------------------------------------ properties
\* The objects removeDirectory enumerated.
Enumerated ==
  {main.fileNodes[i] : i \in 1..Len(main.fileNodes)}
    \cup {main.dirNodes[i] : i \in 1..Len(main.dirNodes)}

\* remove() was called on a directory.
DirectoryErase == main.dirNodes # <<>>

\* A standard built by fileStandard() or directoryStandard() ran as task n.
Controlled(n) ==
  task[n].pc # "idle" /\ task[n].std # "unsafe" /\ task[n].std \notin WriterCalls

TypeMismatch ==
  {"The specified path is not a file.", "The specified path is not a directory."}

\* C1: for every retries value r >= 0, a standard all of whose attempts fail
\* (on an object of its own kind) makes exactly r + 1 attempts before it
\* rejects.
C1_RetriesPlusOneAttempts ==
  \A n \in Nodes :
    (Controlled(n) /\ task[n].pc = "rejected" /\ task[n].error \notin TypeMismatch)
      => task[n].attempts = opts.retries + 1

\* C2: every write pass that completes without an injected fault, the second
\* and later passes of a standard included, emits exactly as many bytes as the
\* file held on disk when the pass began.
C2_PassWritesCurrentSize ==
  \A n \in Nodes :
    (faults = 0 /\ task[n].data.pass >= 1)
      => Len(task[n].data.emitted) = task[n].data.startSize

\* C3: when no fault is injected, no pass with verification requested fails
\* with 'Invalid checksum', whatever its position in the standard and whatever
\* the file size.
C3_NoSpuriousChecksumMismatch ==
  faults = 0 => \A n \in Nodes : task[n].error # "Invalid checksum"

\* C4: when the read-back of a verification-requested pass finds bytes on disk
\* that differ from the bytes the pass emitted, the pass rejects with
\* 'Invalid checksum', the attempt is aborted and the file is still on disk.
C4_MismatchRejects ==
  [][\A n \in Nodes :
       (/\ task[n].pc = "verify"
        /\ task'[n] # task[n]
        /\ faults' = faults
        /\ Resolve(disk, task[n].data.path) # "none"
        /\ disk[Resolve(disk, task[n].data.path)].content # task[n].data.emitted)
       => (/\ task'[n].error = "Invalid checksum"
           /\ task'[n].pc \in {"stat", "rejected"}
           /\ task'[n].data = NoData
           /\ Resolve(disk', task[n].data.path) # "none")]_vars

\* C4 witness: a single verified pass (NZSIT-402) was rejected with 'Invalid
\* checksum' after a short write or a corrupted byte, and the file is on disk.
C4_Witness ==
  \E n \in Nodes :
    /\ task[n].std = "NZSIT-402"
    /\ task[n].error = "Invalid checksum"
    /\ faults >= 1
    /\ Present(disk, n)

\* C5: in a directory erase the directory standard of a directory d starts
\* only after the standards of all files and directories below d have
\* finished, and the root is processed, and removed, after every other object.
C5_BottomUp ==
  DirectoryErase =>
    /\ \A d \in Enumerated :
         (Kind[d] = "dir" /\ task[d].pc # "idle")
           => \A n \in Below(d) \cap Enumerated : Settled(task[n])
    /\ (task[main.dirNodes[1]].pc # "idle" \/ ~disk[main.dirNodes[1]].exists)
         => \A n \in Enumerated \ {main.dirNodes[1]} : Settled(task[n])

\* C5 witness: a tree erase succeeded: the file root/a/f1, then a, then the
\* root ran their standards to completion and the root is gone.
C5_Witness ==
  /\ DirectoryErase
  /\ main.pc = "resolved"
  /\ \A n \in {"f1", "a", "root"} : n \in Enumerated /\ task[n].pc = "resolved"
  /\ ~disk["root"].exists

\* The failures of the file phase, as {path, reason} entries.
FailedFiles ==
  {[path |-> task[n].file, reason |-> task[n].error] :
     n \in {m \in Enumerated : Kind[m] = "file" /\ task[m].pc = "rejected"}}

\* C6: once a file's standard has failed and ignoreErrors is false, remove()
\* on a directory can only reject, with the set of the failed files; no
\* directory standard is invoked and the root directory stays.
C6_FileFailureAborts ==
  (DirectoryErase /\ ~opts.ignoreErrors /\ FailedFiles # {})
    => /\ main.pc \in {"files", "rejected"}
       /\ main.pc = "rejected"
            => /\ main.result.status = "rejected"
               /\ main.result.error = "none"
               /\ {main.result.list[i] : i \in 1..Len(main.result.list)} = FailedFiles
               /\ Len(main.result.list) = Cardinality(FailedFiles)
       /\ \A d \in Dirs : task[d].pc = "idle"
       /\ Present(disk, main.dirNodes[1])
       /\ PathOf(disk, main.dirNodes[1]) = main.path

\* C6 witness: of two files one failed and one was erased, and remove()
\* rejected with the failed one.
C6_Witness ==
  /\ DirectoryErase
  /\ ~opts.ignoreErrors
  /\ main.pc = "rejected"
  /\ task["f2"].pc = "rejected"
  /\ task["f3"].pc = "resolved"
  /\ Len(main.result.list) = 1

\* C7: with ignoreErrors = true and no fault other than objects whose
\* standard fails, remove() on a directory never rejects.
C7_ToleratedNeverRejects ==
  (DirectoryErase /\ opts.ignoreErrors /\ faults = 0) => main.pc # "rejected"

\* C8: when remove() on a directory has finished and every object succeeded,
\* or ignoreErrors is true, the root and everything that was under it are gone.
C8_RootRemoved ==
  (/\ DirectoryErase
   /\ main.pc \in {"resolved", "rejected"}
   /\ faults = 0
   /\ opts.ignoreErrors \/ \A n \in Enumerated : task[n].pc = "resolved")
    => \A n \in Enumerated : ~disk[n].exists

\* C9: a standard called with a retry budget that leaves a next attempt, and
\* hit by a single fault at any step (after the rename too), resolves and
\* leaves nothing of the object on disk.
C9_RetryRecovers ==
  \A n \in Nodes :
    (/\ main.pc = "direct"
     /\ Settled(task[n])
     /\ task[n].std = "forever"
     /\ Kind[n] = task[n].kind
     /\ n \notin readOnly
     /\ opts.retries >= 2
     /\ faults <= 1)
      => (task[n].pc = "resolved" /\ ~disk[n].exists)

\* C10: a standard applied to a path of the wrong type fails at initialization
\* and is not retried: exactly one attempt is made, whatever retries is.
C10_TypeMismatchNotRetried ==
  \A n \in Nodes :
    (Controlled(n) /\ task[n].error \in TypeMismatch) => task[n].attempts = 1

\* The getValues a Byte or ByteArray pass is to use: the one built from the
\* argument of the write call of step.
OwnGetValues(step) ==
  IF step.cls = "Byte" THEN ByteGetValues(step.arg[1])
  ELSE ByteArrayGetValues(step.arg)

\* C11: the file tasks of one directory share no state: under every
\* interleaving, a Byte(b) or ByteArray(bytes) pass of a file fills from the
\* byte or sequence passed to that file's own write call, never from the
\* pattern of another file's pass in flight.
C11_OwnPattern ==
  DirectoryErase =>
    \A n \in Nodes :
      (/\ task[n].pc = "copy"
       /\ Steps(task[n])[task[n].data.step].cls \in {"Byte", "ByteArray"})
        => task[n].data.getValues = OwnGetValues(Steps(task[n])[task[n].data.step])

\* C12: the file standard named "zero" overwrites every byte of the file with
\* 0x00 before it removes the file.
C12_ZeroFillsZero ==
  \A n \in Nodes :
    (task[n].std = "zero" /\ task[n].pc = "remove" /\ faults = 0)
      => \A k \in 1..Len(disk[n].content) : disk[n].content[k] = 0

\* C13: a ByteArray(bytes) pass over an N-byte file leaves byte k of the file
\* equal to bytes[k mod len(bytes)] for every offset k < N, also when the file
\* is longer than one copy chunk and the chunk size is no multiple of
\* len(bytes).
C13_ByteArrayCycles ==
  \A n \in Nodes :
    (task[n].std = "ByteArray.write" /\ task[n].pc = "resolved" /\ faults = 0)
      => LET bytes == WriterSteps("ByteArray.write")[1].arg
         IN \A k \in 0..(Len(disk[n].content) - 1) :
              disk[n].content[k + 1] = bytes[(k % Len(bytes)) + 1]

\* C14: a RandomByte pass draws one byte once per pass: the bytes it writes
\* are all equal to one another, for every file size, also when the file
\* spans several copy chunks.
C14_RandomByteOneValue ==
  \A n \in Nodes :
    (/\ faults = 0
     /\ task[n].data.pass >= 1
     /\ task[n].data.log[task[n].data.pass] = RandomByteGetValues)
      => \A j, k \in 1..Len(task[n].data.emitted) :
           task[n].data.emitted[j] = task[n].data.emitted[k]

\* A truncate step of task n succeeds in this step.
Truncates(n) ==
  task[n].pc = "truncate" /\ task'[n].pc \in {"remove", "resolved"}

\* newSize is the floor of S * r for a draw r (in thousandths) of TruncDraws.
IsFloorOfDraw(newSize, S) ==
  \E draw \in TruncDraws :
    1000 * newSize <= draw * S /\ draw * S < 1000 * (newSize + 1)

\* C15 as stated: for every tracked size S and every draw r in [0.25, 0.75),
\* truncate sets the file length and the tracked size to newSize =
\* floor(S * r), and 0.25 * S <= newSize < 0.75 * S.
C15_TruncateBounds ==
  [][\A n \in Nodes :
       Truncates(n) =>
         LET S == task[n].data.size
             newSize == task'[n].data.size
         IN /\ Len(disk'[n].content) = newSize
            /\ IsFloorOfDraw(newSize, S)
            /\ S <= 4 * newSize
            /\ 4 * newSize < 3 * S]_vars

\* C15 amended: for every tracked size S and every draw r in [0.25, 0.75),
\* truncate sets the file length and the tracked size to newSize =
\* floor(S * r), and 0.25 * S - 1 < newSize <= 0.75 * S, with newSize <
\* 0.75 * S when S > 0.
C15_TruncateFloorBounds ==
  [][\A n \in Nodes :
       Truncates(n) =>
         LET S == task[n].data.size
             newSize == task'[n].data.size
         IN /\ Len(disk'[n].content) = newSize
            /\ IsFloorOfDraw(newSize, S)
            /\ S < 4 * (newSize + 1)
            /\ 4 * newSize <= 3 * S
            /\ S > 0 => 4 * newSize < 3 * S]_vars

\* C15 witness: FileProperties.truncate was called on the fileData of a
\* non-empty file and left it, and the tracked size, at 2 bytes.
C15_Witness ==
  \E n \in Nodes :
    /\ task[n].std = "FileProperties.truncate"
    /\ task[n].pc = "resolved"
    /\ task[n].data.size = 2
    /\ Len(disk[n].content) = 2

GutmannDocumented ==
  [i \in 1..4 |-> RandomGetValues]
  \o <<ByteGetValues(85), ByteGetValues(170)>>
  \o <<ByteArrayGetValues(<<146, 73, 36>>), ByteArrayGetValues(<<73, 36, 146>>),
       ByteArrayGetValues(<<36, 146, 73>>)>>
  \o [i \in 1..16 |-> ByteGetValues((i - 1) * 17)]
  \o <<ByteArrayGetValues(<<146, 73, 36>>), ByteArrayGetValues(<<73, 36, 146>>),
       ByteArrayGetValues(<<36, 146, 73>>)>>
  \o <<ByteArrayGetValues(<<109, 182, 219>>), ByteArrayGetValues(<<182, 219, 109>>),
       ByteArrayGetValues(<<219, 109, 182>>)>>
  \o [i \in 1..4 |-> RandomGetValues]

\* C17: a successful attempt of the "gutmann" file standard performs exactly
\* 35 overwrite passes in the documented order (4 random, 0x55, 0xAA, the
\* rotations of 92 49 24, sixteen constant bytes 0x00 up to and including
\* 0xFF, the rotations again, the rotations of 6D B6 DB, 4 random).
C17_GutmannPasses ==
  \A n \in Nodes :
    (task[n].std = "gutmann" /\ task[n].pc = "remove" /\ faults = 0)
      => /\ task[n].data.pass = 35
         /\ task[n].data.log = GutmannDocumented

\* remove() was called on a regular file and has finished.
FileEraseDone == main.pc \in {"resolved", "rejected"} /\ main.dirNodes = <<>>

\* C18: for a root that is a regular file, remove() applies the file standard
\* once, to the given path: if the standard succeeds the call resolves with 1
\* and the file no longer exists; if it fails and ignoreErrors is false the
\* call rejects with a one-element list holding the given path and the
\* standard's final error.
C18_FileRoot ==
  FileEraseDone =>
    /\ Cardinality({n \in Nodes : task[n].pc # "idle"}) = 1
    /\ \A n \in Nodes :
         task[n].pc # "idle" =>
           /\ Kind[n] = "file"
           /\ task[n].file = main.path
           /\ task[n].std = opts.fileStandard
           /\ Settled(task[n])
           /\ task[n].pc = "resolved"
                => main.result = Resolved(1) /\ ~disk[n].exists
           /\ (task[n].pc = "rejected" /\ ~opts.ignoreErrors)
                => main.result
                     = RejectedList(<<[path |-> main.path, reason |-> task[n].error]>>)

\* C18 witness: remove() on the read-only file f1, ignoreErrors false, has
\* rejected with the one-element list of f1's path and PermissionDenied.
C18_Witness ==
  /\ FileEraseDone
  /\ ~opts.ignoreErrors
  /\ task["f1"].pc = "rejected"
  /\ main.result.list = <<[path |-> PathOf(InitDisk(SingleShape, 1), "f1"),
                           reason |-> "PermissionDenied"]>>

\* The enumerated objects whose standard failed.
FailedObjects == {n \in Enumerated : task[n].pc = "rejected"}

\* C19: when remove() on a directory resolves, the returned count is the
\* number of enumerated files plus the number of enumerated directories (the
\* root included) minus the number of files and directories whose standard
\* failed.
C19_CountsAllObjects ==
  (DirectoryErase /\ main.pc = "resolved")
    => /\ main.result.status = "resolved"
       /\ Len(main.files) + Len(main.directories) = Cardinality(Enumerated)
       /\ main.result.count = Cardinality(Enumerated) - Cardinality(FailedObjects)

\* C19 witness: remove() on root/{a/f1, f2, f3} resolved with 3 after the
\* standards of one file and of the root failed (5 objects, 2 failed).
C19_Witness ==
  /\ DirectoryErase
  /\ main.pc = "resolved"
  /\ Cardinality(Enumerated) = 5
  /\ Cardinality(FailedObjects) = 2
  /\ main.result.count = 3

\* C20: erasing a directory that holds 3 files and 1 subdirectory, where the
\* standard of one file fails and ignoreErrors = true, yields the count 2
\* (3 total objects minus 1 failed file).
C20_ThreeFilesOneFailed ==
  (/\ DirectoryErase
   /\ Len(main.files) = 3
   /\ Len(main.directories) = 2
   /\ opts.ignoreErrors
   /\ main.pc = "resolved"
   /\ Cardinality({n \in FailedObjects : Kind[n] = "file"}) = 1
   /\ faults = 1)
    => main.result.count = 2

\* C21: with retries = 0 a standard makes exactly one attempt and never
\* retries: a first failure is surfaced to the caller at once.
C21_ZeroRetriesOneAttempt ==
  \A n \in Nodes :
    (Controlled(n) /\ opts.retries = 0)
      => /\ task[n].attempts = 1
         /\ task[n].error # "none" => task[n].pc = "rejected"

\* C21 witness: a standard called with retries = 0 was hit by an I/O error
\* and has rejected with it.
C21_Witness ==
  \E n \in Nodes :
    /\ Controlled(n)
    /\ opts.retries = 0
    /\ task[n].pc = "rejected"
    /\ task[n].error = "IoError"

\* The events logged for a standard of which an attempt succeeded after k
\* failed ones.
RECURSIVE Warnings(_)
Warnings(k) == IF k = 0 THEN <<>> ELSE <<"warning">> \o Warnings(k - 1)

\* C22: whenever an attempt succeeds after one or more failed attempts, the
\* standard's remove resolves without throwing, the object no longer exists,
\* and no fatal-error event is logged for it, only the warnings of the
\* retries and the final removed event.
C22_LateSuccessResolves ==
  [][\A n \in Nodes :
       (/\ Controlled(n)
        /\ task[n].attempts > 1
        /\ task[n].pc = "remove"
        /\ disk[n].exists /\ ~disk'[n].exists)
         => /\ task'[n].pc = "resolved"
            /\ task'[n].attempts = task[n].attempts
            /\ task'[n].events
                 = Warnings(task[n].attempts - 1) \o <<"warn", "removed">>]_vars

\* C22 witness: the "forever" file standard resolved at its second attempt.
C22_Witness ==
  \E n \in Nodes :
    /\ task[n].kind = "file"
    /\ task[n].std = "forever"
    /\ task[n].pc = "resolved"
    /\ task[n].attempts = 2

\* The depth of an entry in the tree.
Depth(n) == Cardinality(Ancestors(n))

\* C23: directories are processed in strict deepest-first order: no
\* directory's standard is applied before that of a directory of strictly
\* greater depth, also when the two lie in different sibling subtrees.
C23_DeepestFirst ==
  DirectoryErase =>
    \A d, e \in Enumerated \cap Dirs :
      (task[d].pc # "idle" /\ Depth(e) > Depth(d)) => task[e].pc # "idle"

\* C24: with ignoreErrors = false, once an object of a category (files, or
\* directories) has failed after exhausting its retries, the standard of no
\* further object of that category in the same tree is started.
C24_FailureStopsCategory ==
  [][(DirectoryErase /\ ~opts.ignoreErrors) =>
       \A k \in {"file", "dir"} :
         (\E e \in Enumerated : Kind[e] = k /\ task[e].pc = "rejected")
           => \A n \in Enumerated :
                (Kind[n] = k /\ task[n].pc = "idle") => task'[n].pc = "idle"]_vars

\* The failures of the phase that made remove() reject, as {path, reason}
\* entries: those of the files if a file failed, else those of the directories.
AbortingFailures ==
  LET k == IF FailedFiles # {} THEN "file" ELSE "dir"
  IN {[path |-> task[n].file, reason |-> task[n].error] :
        n \in {m \in FailedObjects : Kind[m] = k}}

\* C25: a failing tree erase with ignoreErrors = false rejects with a failure
\* list that holds exactly the objects whose standard failed in the aborting
\* phase, each once, each with its own path and the final error of its own
\* standard.
C25_FailureListExact ==
  (DirectoryErase /\ ~opts.ignoreErrors /\ main.pc = "rejected")
    => /\ main.result.error = "none"
       /\ {main.result.list[i] : i \in 1..Len(main.result.list)} = AbortingFailures
       /\ Len(main.result.list) = Cardinality(AbortingFailures)
       /\ \A n \in FailedObjects : PathOf(InitDisk(Enumerated, 0), n) = task[n].file

\* C25 witness: every file was erased, and remove() rejected with the two
\* directories that failed.
C25_Witness ==
  /\ DirectoryErase
  /\ ~opts.ignoreErrors
  /\ main.pc = "rejected"
  /\ main.fileNodes # <<>>
  /\ FailedFiles = {}
  /\ Len(main.result.list) = 2

\* C26: a directory leaves the file system only when it holds no entry and
\* every enumerated object below it has been processed with success, or by the
\* final recursive cleanup, which runs only when ignoreErrors is true.
C26_NoRemovalOverUnprocessed ==
  [][\A d \in Dirs :
       (disk[d].exists /\ ~disk'[d].exists)
         => \/ /\ Children(disk, d) = {}
               /\ \A m \in Below(d) \cap Enumerated : task[m].pc = "resolved"
            \/ /\ main.pc = "cleanup"
               /\ opts.ignoreErrors]_vars

\* C26 witness: the subdirectory was removed by its own standard once its file
\* was erased, the root kept a file whose standard failed, and the cleanup
\* removed it.
C26_Witness ==
  /\ DirectoryErase
  /\ opts.ignoreErrors
  /\ main.pc = "resolved"
  /\ task["f1"].pc = "resolved"
  /\ task["a"].pc = "resolved"
  /\ task["f2"].pc = "rejected"
  /\ task["root"].error = "NotEmpty"
  /\ ~disk["root"].exists

\* The awaited calls of the steps of a standard, as task positions.
StepCalls == {"open", "copy", "verify", "rename", "truncate"}

\* The position at which the step i of steps starts, the final Deno.remove
\* after the last step.
StartOf(steps, i) ==
  IF i > Len(steps) THEN "remove"
  ELSE IF steps[i].op = "write" THEN "open"
  ELSE steps[i].op

\* C27: within one attempt of a standard the steps run one after the other:
\* a write pass is Deno.open, then Deno.copy, then, when verification was
\* requested, the read-back; the next step (or the final remove) starts only
\* when the last awaited call of the current step has answered, and no step
\* other than the synchronous verifyNext is passed over. This holds for every
\* pattern, Byte and ByteArray included.
C27_StepsInSequence ==
  [][\A n \in Nodes :
       (/\ task[n].pc \in StepCalls
        /\ task'[n] # task[n]
        /\ task'[n].pc \in StepCalls \cup {"remove"}
        /\ task'[n].attempts = task[n].attempts)
         => LET t == task[n]
                u == task'[n]
                steps == Steps(t)
            IN /\ Steps(u) = steps
               /\ t.pc = "open"
                    => u.pc = "copy" /\ u.data.step = t.data.step
               /\ (t.pc = "copy" /\ t.data.verifyChecksum)
                    => /\ u.pc = "verify"
                       /\ u.data.step = t.data.step
                       /\ u.data.pass = t.data.pass + 1
               /\ (t.pc \in {"verify", "rename", "truncate"}
                     \/ (t.pc = "copy" /\ ~t.data.verifyChecksum))
                    => /\ u.data.step > t.data.step
                       /\ u.data.step <= Len(steps) + 1
                       /\ \A i \in (t.data.step + 1)..(u.data.step - 1) :
                            steps[i].op = "verifyNext"
                       /\ u.pc = StartOf(steps, u.data.step)]_vars

\* C27 witness: an attempt of "gutmann" went through its Random, Byte and
\* ByteArray passes and awaits the final Deno.remove.
C27_Witness ==
  \E n \in Nodes :
    /\ task[n].std = "gutmann"
    /\ task[n].pc = "remove"
    /\ task[n].data.step = Len(Gutmann) + 1
    /\ task[n].data.pass = Len(task[n].data.log)
    /\ \E i \in 1..Len(task[n].data.log) : task[n].data.log[i].kind = "cycle"

\* C28: whenever remove() rejects, it rejects with a failure list, an array
\* of {path, reason} entries, never with a bare error value.
C28_RejectsWithList ==
  main.pc = "rejected"
    => /\ main.result.error = "none"
       /\ main.result.list # <<>>

\* What remove() must use for the option x: the value the caller supplied,
\* else the documented default.
Documented(x) ==
  IF x \in DOMAIN main.options THEN main.options[x]
  ELSE [fileStandard |-> "forever", directoryStandard |-> "forever",
        ignoreErrors |-> FALSE, retries |-> 3][x]

\* C29: remove() uses, for each option left out, the file standard "forever"
\* (random write with verification, rename, truncate), the directory standard
\* "forever" (rename), retries = 3 and ignoreErrors = false, and for each
\* option supplied the value given, whatever other options are supplied.
C29_DefaultsForOmitted ==
  main.pc \notin {"direct", "stat"}
    => /\ \A x \in OptionNames : opts[x] = Documented(x)
       /\ FileSteps("forever") = <<VerifyNext, Write("Random"), Rename, Truncate>>
       /\ DirectorySteps("forever") = <<Rename>>
       /\ \A n \in Nodes :
            task[n].pc # "idle"
              => /\ task[n].std = Documented(IF task[n].kind = "file"
                                             THEN "fileStandard"
                                             ELSE "directoryStandard")
                 /\ task[n].attempts <= IF Documented("retries") > 1
                                        THEN Documented("retries") ELSE 1
       /\ (DirectoryErase /\ main.pc = "resolved" /\ FailedObjects # {})
            => Documented("ignoreErrors")

\* C29 witness: remove(root) without options: the file standard "forever"
\* rejected after three attempts, and so did remove().
C29_Witness ==
  /\ DirectoryErase
  /\ DOMAIN main.options = {}
  /\ task["f1"].std = "forever"
  /\ task["f1"].attempts = 3
  /\ task["f1"].pc = "rejected"
  /\ main.pc = "rejected"

\* A file task of the tree is in flight.
FileInFlight ==
  \E n \in Enumerated :
    Kind[n] = "file" /\ task[n].pc \notin {"resolved", "rejected"}

\* C30: in a directory erase every enumerated path has one task of its own,
\* started once and for that path; and a directory is touched (its standard
\* started, its name or its presence changed) only when no file task of the
\* tree is in flight any more, whether those tasks resolved or rejected.
C30_FanInBeforeDirectories ==
  [][DirectoryErase =>
       /\ \A i, j \in 1..Len(main.files) :
            main.files[i] = main.files[j] => i = j
       /\ \A i, j \in 1..Len(main.directories) :
            main.directories[i] = main.directories[j] => i = j
       /\ \A n \in Nodes :
            task[n].pc # "idle"
              => /\ n \in Enumerated
                 /\ task[n].kind = Kind[n]
                 /\ task[n].file = PathOf(InitDisk(Enumerated, 0), n)
                 /\ task'[n].pc # "idle"
                 /\ task'[n].file = task[n].file
                 /\ task'[n].attempts >= task[n].attempts
       /\ \A n \in Nodes :
            (task[n].pc = "idle" /\ task'[n].pc # "idle") => task'[n].attempts = 1
       /\ \A d \in Dirs :
            (\/ task[d].pc = "idle" /\ task'[d].pc # "idle"
             \/ disk'[d] # disk[d])
              => ~FileInFlight]_vars

\* C30 witness: one file task rejected, the other resolved, and only then
\* the standard of the root directory is running, at its rename.
C30_Witness ==
  /\ DirectoryErase
  /\ task["f2"].pc = "rejected"
  /\ task["f3"].pc = "resolved"
  /\ task["root"].pc = "rename"
  /\ main.pc = "dirs"

\* The number of write passes among steps.
Passes(steps) == Len(SelectSeq(steps, LAMBDA st : st.op = "write"))

\* C31: with ignoreErrors = false a file leaves the disk only by the
\* Deno.remove that ends an attempt of its own standard, all steps of that
\* attempt done; and an attempt one of whose calls (open, read-back, rename,
\* truncate, remove) met an error is over at once, the file still on disk.
C31_DeleteOnlyAfterCleanAttempt ==
  [][~opts.ignoreErrors =>
       /\ \A f \in Files :
            (disk[f].exists /\ ~disk'[f].exists)
              => /\ task[f].pc = "remove"
                 /\ task'[f].pc = "resolved"
                 /\ Resolve(disk, task[f].data.path) = f
                 /\ task[f].std # "unsafe"
                      => /\ task[f].data.step = Len(Steps(task[f])) + 1
                         /\ task[f].data.pass = Passes(Steps(task[f]))
       /\ \A n \in Files :
            (/\ task[n].pc \in {"open", "verify", "rename", "truncate", "remove"}
             /\ task'[n] # task[n]
             /\ faults' > faults)
              => /\ task'[n].pc = "rejected"
                      \/ (task'[n].pc = "stat"
                           /\ task'[n].attempts = task[n].attempts + 1)
                 /\ disk' = disk]_vars

\* C31 witness: of two files erased with "forever" and ignoreErrors = false,
\* one went through a whole attempt and is gone, the other failed and is
\* still on disk.
C31_Witness ==
  /\ DirectoryErase
  /\ ~opts.ignoreErrors
  /\ opts.fileStandard = "forever"
  /\ task["f2"].pc = "resolved"
  /\ ~disk["f2"].exists
  /\ task["f3"].pc = "rejected"
  /\ disk["f3"].exists

\* A byte the file had before the erasure is still at its place in content.
OriginalByteIn(content) ==
  \E i \in 1..Len(content) : content[i] = OrigContent[i]

\* The step in which the Deno.remove of the catalog standard run by task n
\* takes the file off the disk.
RemovesFile(n) ==
  /\ Controlled(n)
  /\ task[n].kind = "file"
  /\ task[n].pc = "remove"
  /\ task'[n].pc = "resolved"

C33_CountOneMeansRemoved ==
  (FileEraseDone /\ main.pc = "resolved" /\ main.result.count = 1)
    => \A n \in Files : task[n].pc # "idle" => ~disk[n].exists

\* C34: every attempt whose init succeeds starts from an object built anew:
\* its path is the path given to the standard, its size the size the file has
\* on disk then, its checksum empty and no pass done; its verification flag
\* is off, unless the first step of the standard is verifyNext, which has
\* already run. Nothing is taken from the attempt before.
C34_FreshObjectPerAttempt ==
  [][\A n \in Nodes :
       (task[n].pc = "stat" /\ task'[n].pc \notin {"stat", "rejected"})
         => LET t == task[n]
                u == task'[n]
                f == Resolve(disk, t.file)
            IN /\ f # "none"
               /\ u.attempts = t.attempts
               /\ u.data.path = t.file
               /\ u.data.size = Len(disk[f].content)
               /\ u.data.checksum = <<>>
               /\ u.data.pass = 0
               /\ u.data.emitted = <<>>
               /\ u.data.log = <<>>
               /\ u.data.verifyChecksum
                    = (Steps(u) # <<>> /\ Steps(u)[1].op = "verifyNext")]_vars

\* C34 witness: the first attempt of "forever" wrote the file and failed; the
\* second attempt has its object, of the given path and the size on disk,
\* with an empty checksum.
C34_Witness ==
  \E n \in Files :
    /\ task[n].std = "forever"
    /\ task[n].attempts = 2
    /\ task[n].pc = "open"
    /\ task[n].data.path = task[n].file
    /\ task[n].data.checksum = <<>>
    /\ task[n].data.size = Len(disk[n].content)
    /\ task[n].data.size > 0
    /\ ~OriginalByteIn(disk[n].content)

\* The task t is in the write pass that follows a verifyNext.
InRequestedPass(t) ==
  /\ t.pc \in {"open", "copy"}
  /\ t.data.step > 1
  /\ Steps(t)[t.data.step - 1].op = "verifyNext"

\* C35: a request for verification is for one pass. The flag is on only
\* during the write that follows a verifyNext, and the checksum is empty when
\* it is set; the Deno.copy of that write leaves as checksum exactly the bytes
\* the pass emitted, turns the flag off and is followed by one read-back; a
\* pass without a request leaves the checksum as it was and is followed by no
\* read-back.
C35_VerifyOnePass ==
  [][\A n \in Nodes :
       LET t == task[n]
           u == task'[n]
       IN /\ t.data.verifyChecksum => InRequestedPass(t)
          /\ (u.data.verifyChecksum /\ ~t.data.verifyChecksum)
               => u.data.checksum = <<>> /\ InRequestedPass(u)
          /\ (t.pc = "copy" /\ u # t /\ ~Failed(u))
               => IF t.data.verifyChecksum
                  THEN /\ u.pc = "verify"
                       /\ u.data.checksum = u.data.emitted
                       /\ ~u.data.verifyChecksum
                  ELSE /\ u.pc # "verify"
                       /\ ~u.data.verifyChecksum => u.data.checksum = t.data.checksum
          /\ (t.pc = "verify" /\ u # t) => u.pc # "verify"
          /\ (u.pc = "verify" /\ u # t) => t.pc = "copy" /\ t.data.verifyChecksum]_vars

\* C35 witness: the first pass of "DOD-5220.22-M" was verified, and the
\* second request has set the flag again over an empty checksum.
C35_Witness ==
  \E n \in Files :
    /\ task[n].std = "DOD-5220.22-M"
    /\ task[n].pc = "copy"
    /\ task[n].data.pass = 1
    /\ task[n].data.verifyChecksum
    /\ task[n].data.checksum = <<>>
    /\ task[n].data.emitted # <<>>

\* The names the entries have on disk d.
NamesOn(d) == {d[m].name : m \in Nodes}

\* C36: a rename that succeeds gives the object a name no entry had, in the
\* same parent directory, and sets the tracked path to it; the content of the
\* file, the tracked size, the checksum, the verification flag and every
\* other entry stay as they were. A rename that fails changes nothing on
\* disk and leaves the object of its caller, the tracked path included, as
\* it was.
C36_RenameFrame ==
  [][\A n \in Nodes :
       (task[n].pc = "rename" /\ task'[n] # task[n])
         => LET t == task[n]
                u == task'[n]
                f == Resolve(disk, t.data.path)
            IN IF Failed(u)
               THEN /\ disk' = disk
                    /\ t.std \in WriterCalls => u.data = t.data
               ELSE /\ f # "none"
                    /\ disk'[f].name \notin NamesOn(disk)
                    /\ disk' = [disk EXCEPT ![f].name = disk'[f].name]
                    /\ u.data.path = Sibling(t.data.path, disk'[f].name)
                    /\ Resolve(disk', u.data.path) = f
                    /\ Resolve(disk', t.data.path) = "none"
                    /\ u.data.size = t.data.size
                    /\ u.data.checksum = t.data.checksum
                    /\ u.data.verifyChecksum = t.data.verifyChecksum
                    /\ u.data.pass = t.data.pass]_vars

\* C36 witness: FileProperties.rename was called on the fileData of a file
\* of several bytes and has returned; the file has its bytes under the new
\* name, which the fileData tracks.
C36_Witness ==
  \E n \in Files :
    /\ task[n].std = "FileProperties.rename"
    /\ task[n].pc = "resolved"
    /\ task[n].data.path # task[n].file
    /\ Resolve(disk, task[n].data.path) = n
    /\ task[n].data.size = Len(disk[n].content)
    /\ Len(disk[n].content) > 1
    /\ disk[n].content = SubSeq(OrigContent, 1, Len(disk[n].content))

\* The number of events e in the sequence events.
Count(events, e) == Len(SelectSeq(events, LAMBDA x : x = e))

\* C37: an invocation of a standard of either catalog, "unsafe" included,
\* that has settled has emitted exactly one terminal event, as its last
\* event: "removed" when it resolved, "error" when it rejected; and one
\* "warning" for each attempt that failed.
C37_OneTerminalEvent ==
  \A n \in Nodes :
    (task[n].pc \in {"resolved", "rejected"} /\ task[n].std \notin WriterCalls)
      => LET events == task[n].events
             resolved == task[n].pc = "resolved"
         IN /\ events # <<>>
            /\ events[Len(events)] = IF resolved THEN "removed" ELSE "error"
            /\ Count(events, "removed") + Count(events, "error") = 1
            /\ Count(events, "warning")
                 = IF resolved THEN task[n].attempts - 1 ELSE task[n].attempts

\* The standard each alias is documented to delegate to.
DelegatesTo ==
  [alias \in Aliases |->
     CASE alias = "ISM-6.2.92" -> "NZSIT-402"
       [] alias = "HMG-IS5" -> "AFSSI-5020"
       [] alias = "NAVOS-5239-26" -> "CSEC-ITSG-06"
       [] alias = "NCSC-TG-025" -> "DOD-5220.22-M"]

\* C38: each alias declares the stepsCount of the standard it delegates to,
\* and a call of an alias on a path is the call of that standard on the same
\* path with the same options: the task is the one the delegate builds, with
\* the delegate's passes, the caller's retries, the delegate's events and the
\* delegate's outcome.
C38_AliasIsDelegate ==
  /\ \A alias \in Aliases : StepsCount(alias) = StepsCount(DelegatesTo[alias])
  /\ (main.pc = "direct" /\ opts.fileStandard \in Aliases)
       => LET delegate == DelegatesTo[opts.fileStandard]
              called == StartStandard("file", delegate, task["f1"].file, opts.retries)
          IN /\ task["f1"].std = delegate
             /\ task["f1"].file = called.file
             /\ (task["f1"].attempts = 1 /\ task["f1"].error = "none")
                  => task["f1"].retries = called.retries
             /\ task["f1"].attempts <= IF opts.retries > 1 THEN opts.retries ELSE 1
             /\ Steps(task["f1"])
                  = Steps([called EXCEPT !.data.byte = task["f1"].data.byte])
             /\ task["f1"].pc = "resolved"
                  => task["f1"].events = Warnings(task["f1"].attempts - 1)
                                          \o Removed(task["f1"])
             /\ task["f1"].pc = "rejected"
                  => task["f1"].events = Warnings(task["f1"].attempts) \o <<"error">>

\* C38 witness: "HMG-IS5" was called with retries left, and the three passes
\* of "AFSSI-5020" have run in the task it started.
C38_Witness ==
  /\ main.pc = "direct"
  /\ opts.fileStandard = "HMG-IS5"
  /\ opts.retries = MaxRetries
  /\ task["f1"].std = "AFSSI-5020"
  /\ task["f1"].data.pass = 3
  /\ task["f1"].data.log = <<ZeroGetValues, OneGetValues, RandomByteGetValues>>

====
